---- MODULE Spec2Model ----
(***************************************************************************)
(* Model of Visas_SCalc.py, the Schengen visa stay calculator.             *)
(*                                                                         *)
(* One run of the script is modelled: the visa start date is read, the     *)
(* optional manual first trip is read and validated, and then the four     *)
(* validity windows are processed in order, each by the greedy scheduling  *)
(* loop, and displayed.                                                    *)
(*                                                                         *)
(* A datetime (always at midnight in the script) is its proleptic          *)
(* Gregorian ordinal, as date.toordinal() gives it; a timedelta is a       *)
(* number of days.  A formatted date ('%Y-%m-%d') is the triple            *)
(* <<year, month, day>> of the fields the string is made of.               *)
(***************************************************************************)
EXTENDS Integers, Sequences, FiniteSets

VARIABLES
    pc,               \* position of the script
    start,            \* line 33
    has_manual_trip,  \* line 38
    manual_entry,     \* line 48
    manual_exit,      \* line 49
    manual_duration,  \* line 50
    valid_manual,     \* lines 52-65
    message,          \* what the first-trip section showed (st.error / st.success)
    idx,              \* index of the window (tab) being processed
    visa_end,         \* line 84
    stays,            \* line 88
    current,          \* line 89
    tabs              \* what each processed tab displays, in order

vars == <<pc, start, has_manual_trip, manual_entry, manual_exit, manual_duration,
          valid_manual, message, idx, visa_end, stays, current, tabs>>

\* The value of a date or duration name of the script that has not been
\* assigned (yet); ordinals of dates start at 1.  The script reads no name
\* before it assigns it.
Unset == 0

-----------------------------------------------------------------------------
(* Calendar: the conversion between ordinals and year-month-day fields.    *)

DAYS_IN_MONTH == <<31, 28, 31, 30, 31, 30, 31, 31, 30, 31, 30, 31>>

DAYS_BEFORE_MONTH == <<0, 31, 59, 90, 120, 151, 181, 212, 243, 273, 304, 334>>

is_leap(year) == year % 4 = 0 /\ (year % 100 # 0 \/ year % 400 = 0)

days_before_year(year) ==
    LET y == year - 1
    IN  y * 365 + (y \div 4) - (y \div 100) + (y \div 400)

days_before_month(year, month) ==
    DAYS_BEFORE_MONTH[month] + (IF month > 2 /\ is_leap(year) THEN 1 ELSE 0)

\* The datetime of a date picked in a date_input, combined with midnight.
ymd2ord(year, month, day) ==
    days_before_year(year) + days_before_month(year, month) + day

ord2ymd(ord) ==
    LET n0   == ord - 1
        n400 == n0 \div 146097
        r400 == n0 % 146097
        n100 == r400 \div 36524
        r100 == r400 % 36524
        n4   == r100 \div 1461
        r4   == r100 % 1461
        n1   == r4 \div 365
        n    == r4 % 365
        year == n400 * 400 + 1 + n100 * 100 + n4 * 4 + n1
    IN  IF n1 = 4 \/ n100 = 4
        THEN <<year - 1, 12, 31>>
        ELSE LET leapyear == n1 = 3 /\ (n4 # 24 \/ n100 = 3)
                 month0   == (n + 50) \div 32
                 prec0    == DAYS_BEFORE_MONTH[month0]
                               + (IF month0 > 2 /\ leapyear THEN 1 ELSE 0)
                 month    == IF prec0 > n THEN month0 - 1 ELSE month0
                 preceding ==
                     IF prec0 > n
                     THEN prec0 - (DAYS_IN_MONTH[month]
                                     + (IF month = 2 /\ leapyear THEN 1 ELSE 0))
                     ELSE prec0
             IN  <<year, month, n - preceding + 1>>

\* d.strftime('%Y-%m-%d'): the year, month and day fields of the string.
strftime(d) == ord2ymd(d)

-----------------------------------------------------------------------------
(* The arithmetic of the script, one operator per expression.              *)

\* line 50
ManualDuration(entry, exit) == (exit - entry) + 1

\* ValidateManual without the check of the duration.
ValidateManual_NoLengthCheck(s, entry, exit, duration) ==
    IF entry < s THEN "entry_before_start"
    ELSE IF exit < entry THEN "exit_before_entry"
    ELSE "recorded"

\* lines 52-63: the message shown, which decides valid_manual
ValidateManual(s, entry, exit, duration) ==
    IF entry < s THEN "entry_before_start"
    ELSE IF exit < entry THEN "exit_before_entry"
    ELSE IF duration > 90 THEN "too_long"
    ELSE "recorded"

\* lines 68-73
validities ==
    << [label |-> "3 months", days |-> 90],
       [label |-> "1 year",   days |-> 365],
       [label |-> "2 years",  days |-> 730],
       [label |-> "5 years",  days |-> 1825] >>

\* lines 83-84
VisaEnd(s, days) == s + days - 1

\* line 92
UseManual(has, valid) == has /\ valid

\* ManualTooLate that also refuses a trip ending on the visa's last day.
ManualTooLate_OrLastDay(mexit, vend) == mexit >= vend

\* line 94: the trip does not fit when it ends after the visa expires
ManualTooLate(mexit, vend) == mexit > vend

\* ManualRow with the two dates swapped.
ManualRow_Swapped(entry, exit, duration) ==
    [Type |-> "Manual (Fixed)", EntryDate |-> strftime(exit),
     ExitDate |-> strftime(entry), Duration |-> duration]

\* lines 99-104
ManualRow(entry, exit, duration) ==
    [Type |-> "Manual (Fixed)", EntryDate |-> strftime(entry),
     ExitDate |-> strftime(exit), Duration |-> duration]

\* ManualResume entering on the 90th day after the manual exit.
ManualResume_Gap90(mexit) == mexit + 90

\* line 107
ManualResume(mexit) == mexit + 91

\* line 114
PastVisaEnd(entry, vend) == entry > vend

\* PotentialExit one day late (a stay of 91 days) and one day early.
PotentialExit_Plus90(entry) == entry + 90

PotentialExit_Plus88(entry) == entry + 88

\* line 118
PotentialExit(entry) == entry + 89

\* ExitDate without the cap at the visa end.
ExitDate_Uncapped(potential_exit, vend) == potential_exit

\* line 121
ExitDate(potential_exit, vend) ==
    IF potential_exit < vend THEN potential_exit ELSE vend

\* line 122
StayDays(entry, exit_date) == (exit_date - entry) + 1

\* StayIsValid with the comparison turned round.
StayIsValid_Negative(stay_days) == stay_days < 0

\* line 125
StayIsValid(stay_days) == stay_days > 0

\* lines 126-131
OptimizedRow(entry, exit_date, stay_days) ==
    [Type |-> "Optimized (Auto)", EntryDate |-> strftime(entry),
     ExitDate |-> strftime(exit_date), Duration |-> stay_days]

\* NextCurrent entering on the 90th day after the exit, and NextCurrent that
\* goes back to the entry of a full stay, so that the cursor does not advance.
NextCurrent_Gap90(exit_date) == exit_date + 90

NextCurrent_Stuck(exit_date) == exit_date - 89

\* line 134
NextCurrent(exit_date) == exit_date + 91

\* line 140: df["Duration"].sum()
RECURSIVE SumDuration(_)
SumDuration(rows) ==
    IF rows = <<>> THEN 0
    ELSE Head(rows).Duration + SumDuration(Tail(rows))

\* lines 86, 95, 138-157: what one tab shows
WarningTab(i, vend) ==
    [label |-> validities[i].label, valid_until |-> strftime(vend),
     kind |-> "warning_expired", warned_end |-> strftime(vend),
     rows |-> <<>>, metrics |-> <<>>]

ResultTab(i, vend, rows) ==
    IF rows # <<>>
    THEN [label |-> validities[i].label, valid_until |-> strftime(vend),
          kind |-> "table", warned_end |-> <<>>,
          rows |-> rows, metrics |-> <<Len(rows), SumDuration(rows)>>]
    ELSE [label |-> validities[i].label, valid_until |-> strftime(vend),
          kind |-> "no_periods", warned_end |-> <<>>,
          rows |-> <<>>, metrics |-> <<>>]

\* line 81: the next position after tab i is finished
AfterTab(i) == IF i < Len(validities) THEN "window" ELSE "done"

-----------------------------------------------------------------------------
(* The inputs a run is checked on.                                         *)

MaxStartK == 2      \* start dates tried: the base date and MaxStartK later ones
StartStride == 423  \* days between two start dates tried
MaxEarly == 1       \* entries tried up to MaxEarly days around each boundary
MaxShort == 2       \* short trips tried: 0 .. MaxShort days
MaxOver == 1        \* long trips tried: up to 90 + MaxOver days

StartDates == { ymd2ord(2025, 1, 1) + StartStride * k : k \in 0..MaxStartK }

\* manual entry, in days after the visa start
EntryOffsets ==
    ((0 - MaxEarly)..MaxEarly)
      \cup { validities[i].days - k : i \in 1..Len(validities), k \in 0..(MaxEarly + 1) }
      \cup { 75, 100 }

\* manual trip length in days (exit = entry + length - 1); 0 puts the exit
\* the day before the entry
TripLengths == (0..MaxShort) \cup { 16 } \cup (88..(90 + MaxOver))

-----------------------------------------------------------------------------
(* The run.                                                                *)

Init ==
    /\ pc = "visa_details"
    /\ start = Unset
    /\ has_manual_trip = FALSE   \* assigned by FirstTrip before it is read
    /\ manual_entry = Unset
    /\ manual_exit = Unset
    /\ manual_duration = Unset
    /\ valid_manual = FALSE      \* assigned by FirstTrip before it is read
    /\ message = "none"
    /\ idx = 1
    /\ visa_end = Unset
    /\ stays = <<>>
    /\ current = Unset
    /\ tabs = <<>>

\* lines 27-33
VisaDetails ==
    /\ pc = "visa_details"
    /\ \E d \in StartDates : start' = d
    /\ pc' = "first_trip"
    /\ UNCHANGED <<has_manual_trip, manual_entry, manual_exit, manual_duration,
                   valid_manual, message, idx, visa_end, stays, current, tabs>>

\* lines 38-65
FirstTrip ==
    /\ pc = "first_trip"
    /\ \E checked \in BOOLEAN :
         /\ has_manual_trip' = checked
         /\ IF checked
            THEN \E off \in EntryOffsets, len \in TripLengths :
                   LET entry    == start + off
                       exit     == entry + len - 1
                       duration == ManualDuration(entry, exit)
                       shown    == ValidateManual(start, entry, exit, duration)
                   IN  /\ manual_entry' = entry
                       /\ manual_exit' = exit
                       /\ manual_duration' = duration
                       /\ message' = shown
                       /\ valid_manual' = (shown = "recorded")
            ELSE /\ valid_manual' = FALSE
                 /\ UNCHANGED <<manual_entry, manual_exit, manual_duration, message>>
    /\ pc' = "window"
    /\ UNCHANGED <<start, idx, visa_end, stays, current, tabs>>

\* lines 81-108: one tab up to the scheduling loop
BeginWindow ==
    /\ pc = "window"
    /\ LET vend == VisaEnd(start, validities[idx].days)
       IN  /\ visa_end' = vend
           /\ IF UseManual(has_manual_trip, valid_manual)
              THEN IF ManualTooLate(manual_exit, vend)
                   THEN \* lines 95-97: warning, then continue
                        /\ tabs' = Append(tabs, WarningTab(idx, vend))
                        /\ stays' = <<>>
                        /\ current' = start
                        /\ idx' = IF idx < Len(validities) THEN idx + 1 ELSE idx
                        /\ pc' = AfterTab(idx)
                   ELSE /\ stays' = <<ManualRow(manual_entry, manual_exit,
                                                manual_duration)>>
                        /\ current' = ManualResume(manual_exit)
                        /\ pc' = "loop"
                        /\ UNCHANGED <<idx, tabs>>
              ELSE /\ stays' = <<>>
                   /\ current' = start
                   /\ pc' = "loop"
                   /\ UNCHANGED <<idx, tabs>>
    /\ UNCHANGED <<start, has_manual_trip, manual_entry, manual_exit,
                   manual_duration, valid_manual, message>>

\* lines 110-135: one pass of the while loop
LoopIteration ==
    /\ pc = "loop"
    /\ LET entry == current
       IN  IF PastVisaEnd(entry, visa_end)
           THEN \* line 115: break
                /\ pc' = "display"
                /\ UNCHANGED <<stays, current>>
           ELSE LET potential_exit == PotentialExit(entry)
                    exit_date      == ExitDate(potential_exit, visa_end)
                    stay_days      == StayDays(entry, exit_date)
                IN  /\ stays' = IF StayIsValid(stay_days)
                                THEN Append(stays, OptimizedRow(entry, exit_date,
                                                                stay_days))
                                ELSE stays
                    /\ current' = NextCurrent(exit_date)
                    /\ pc' = "loop"
    /\ UNCHANGED <<start, has_manual_trip, manual_entry, manual_exit,
                   manual_duration, valid_manual, message, idx, visa_end, tabs>>

\* lines 138-157
Display ==
    /\ pc = "display"
    /\ tabs' = Append(tabs, ResultTab(idx, visa_end, stays))
    /\ idx' = IF idx < Len(validities) THEN idx + 1 ELSE idx
    /\ pc' = AfterTab(idx)
    /\ UNCHANGED <<start, has_manual_trip, manual_entry, manual_exit,
                   manual_duration, valid_manual, message, visa_end, stays, current>>

Next ==
    \/ VisaDetails
    \/ FirstTrip
    \/ BeginWindow
    \/ LoopIteration
    \/ Display

Spec == Init /\ [][Next]_vars

\* The script runs to its end: no step of it waits for anything.
FairSpec == Spec /\ WF_vars(Next)

-----------------------------------------------------------------------------
(* Reading the displayed schedules.                                        *)

\* The date a formatted 'YYYY-MM-DD' field triple denotes.
ParseDate(f) == ymd2ord(f[1], f[2], f[3])

EntryOf(row) == ParseDate(row.EntryDate)
ExitOf(row) == ParseDate(row.ExitDate)

IsManual(row) == row.Type = "Manual (Fixed)"
IsOptimized(row) == row.Type = "Optimized (Auto)"

\* The last valid day of window i: start + totalDays - 1.
WindowEnd(i) == start + validities[i].days - 1

\* Every schedule there is in a state, with the end of its window: the
\* schedules of the tabs already displayed and the one under construction.
Schedules ==
    { [rows |-> tabs[i].rows, end |-> WindowEnd(i)] : i \in 1..Len(tabs) }
      \cup (IF pc \in {"loop", "display"}
            THEN { [rows |-> stays, end |-> WindowEnd(idx)] }
            ELSE {})

InputsRead == pc \notin {"visa_details", "first_trip"}

\* The manual trip passes the three checks (and the checkbox is on).
Accepted ==
    /\ has_manual_trip = TRUE
    /\ manual_entry >= start
    /\ manual_exit >= manual_entry
    /\ (manual_exit - manual_entry) + 1 <= 90

\* The manual trip is absent or fails one of the three checks.
Rejected ==
    \/ has_manual_trip = FALSE
    \/ /\ has_manual_trip = TRUE
       /\ \/ manual_entry < start
          \/ manual_exit < manual_entry
          \/ (manual_exit - manual_entry) + 1 > 90

Min(a, b) == IF a < b THEN a ELSE b
Max(a, b) == IF a > b THEN a ELSE b

-----------------------------------------------------------------------------
\* C1: in every schedule, each range enters exactly 91 days after the exit
\* of the range before it, the pair Manual / first Optimized included.
C1_ConsecutiveGap ==
    \A sch \in Schedules :
        \A k \in 1..(Len(sch.rows) - 1) :
            EntryOf(sch.rows[k + 1]) = ExitOf(sch.rows[k]) + 91

C1_Witness ==
    \E i \in 1..Len(tabs) :
        /\ Len(tabs[i].rows) >= 3
        /\ IsManual(tabs[i].rows[1])
        /\ IsOptimized(tabs[i].rows[2])
        /\ EntryOf(tabs[i].rows[2]) = manual_exit + 91

\* C2: every range of every schedule has a duration of exit - entry + 1
\* days, between 1 and 90.
C2_DurationBounds ==
    \A sch \in Schedules :
        \A k \in 1..Len(sch.rows) :
            LET r == sch.rows[k]
            IN  /\ r.Duration = (ExitOf(r) - EntryOf(r)) + 1
                /\ 1 <= r.Duration
                /\ r.Duration <= 90

C2_Witness ==
    \E i \in 1..Len(tabs) :
        /\ Len(tabs[i].rows) >= 2
        /\ IsManual(tabs[i].rows[1])
        /\ tabs[i].rows[1].Duration = 90
        /\ tabs[i].rows[Len(tabs[i].rows)].Duration < 90

\* C3: every range of every schedule lies inside its visa window:
\* start <= entry <= exit <= window end.
C3_InsideWindow ==
    \A sch \in Schedules :
        \A k \in 1..Len(sch.rows) :
            LET r == sch.rows[k]
            IN  /\ start <= EntryOf(r)
                /\ EntryOf(r) <= ExitOf(r)
                /\ ExitOf(r) <= sch.end

C3_Witness ==
    \E i \in 1..Len(tabs) :
        /\ tabs[i].rows # <<>>
        /\ IsManual(tabs[i].rows[1])
        /\ ExitOf(tabs[i].rows[1]) = WindowEnd(i)
        /\ EntryOf(tabs[i].rows[1]) > start

\* C4: a window is inapplicable exactly when an accepted manual trip ends
\* after the window's end; it then shows a warning naming the window's end,
\* no rows and no totals; the windows after it are still processed, and a
\* window that is not inapplicable shows its schedule with its totals.
C4_InapplicableLocal ==
    InputsRead =>
        /\ \A i \in 1..Len(tabs) :
              /\ tabs[i].kind = "warning_expired"
                    <=> (Accepted /\ manual_exit > WindowEnd(i))
              /\ tabs[i].kind = "warning_expired" =>
                    /\ tabs[i].rows = <<>>
                    /\ tabs[i].metrics = <<>>
                    /\ ParseDate(tabs[i].warned_end) = WindowEnd(i)
              /\ tabs[i].kind # "warning_expired" =>
                    /\ tabs[i].kind = "table"
                    /\ tabs[i].rows # <<>>
                    /\ tabs[i].metrics = <<Len(tabs[i].rows), SumDuration(tabs[i].rows)>>
        /\ pc # "done" => (idx \in 1..Len(validities) /\ Len(tabs) = idx - 1)
        /\ pc = "done" => Len(tabs) = Len(validities)

C4_Witness ==
    /\ pc = "done"
    /\ Len(tabs) = 4
    /\ tabs[1].kind = "warning_expired"
    /\ tabs[2].kind = "warning_expired"
    /\ tabs[3].kind = "table"
    /\ tabs[4].kind = "table"

\* The schedule of window i when there is no manual trip: stays of 90 days
\* entered every 180 days from the start, the last one cut at the window end.
NoManualCount(i) == ((validities[i].days - 1) \div 180) + 1

IsNoManualSchedule(rows, i) ==
    /\ Len(rows) = NoManualCount(i)
    /\ \A k \in 1..Len(rows) :
          /\ IsOptimized(rows[k])
          /\ EntryOf(rows[k]) = start + 180 * (k - 1)
          /\ ExitOf(rows[k]) = Min(start + 180 * (k - 1) + 89, WindowEnd(i))
          /\ rows[k].Duration = (ExitOf(rows[k]) - EntryOf(rows[k])) + 1

\* C5: when the checkbox is off, or the trip fails one of the three checks,
\* no schedule holds a Manual range, no window is inapplicable, and every
\* window shows the schedule of a run without manual trip.
C5_RejectedIsAbsent ==
    (InputsRead /\ Rejected) =>
        /\ \A sch \in Schedules :
              \A k \in 1..Len(sch.rows) : ~IsManual(sch.rows[k])
        /\ \A i \in 1..Len(tabs) :
              /\ tabs[i].kind # "warning_expired"
              /\ IsNoManualSchedule(tabs[i].rows, i)

C5_Witness ==
    /\ pc = "done"
    /\ Len(tabs) = 4
    /\ has_manual_trip = TRUE
    /\ manual_entry >= start
    /\ manual_exit >= manual_entry
    /\ (manual_exit - manual_entry) + 1 = 91

\* C6: when an accepted manual trip fits in the window, the schedule starts
\* with the Manual range, with the caller's entry, exit and duration; it is
\* the only Manual range, and the first Optimized range enters 91 days after
\* the manual exit.  When no manual trip is used every range is Optimized and
\* the first range enters on the visa start date.
C6_ManualFirst ==
    InputsRead =>
        \A i \in 1..Len(tabs) :
            LET rows == tabs[i].rows
            IN  /\ (Accepted /\ manual_exit <= WindowEnd(i)) =>
                      /\ rows # <<>>
                      /\ IsManual(rows[1])
                      /\ EntryOf(rows[1]) = manual_entry
                      /\ ExitOf(rows[1]) = manual_exit
                      /\ rows[1].Duration = (manual_exit - manual_entry) + 1
                      /\ \A k \in 2..Len(rows) : IsOptimized(rows[k])
                      /\ Len(rows) >= 2 => EntryOf(rows[2]) = manual_exit + 91
                /\ Rejected =>
                      /\ rows # <<>>
                      /\ \A k \in 1..Len(rows) : IsOptimized(rows[k])
                      /\ EntryOf(rows[1]) = start

C6_Witness ==
    /\ pc = "done"
    /\ Accepted
    /\ manual_entry > start
    /\ manual_duration = 16
    /\ Len(tabs[4].rows) >= 3
    /\ IsManual(tabs[4].rows[1])
    /\ IsOptimized(tabs[4].rows[2])

\* C7: the scheduling loop terminates: a pass of the loop either finds the
\* cursor past the window end and leaves the loop, or moves the cursor
\* forward by at least 91 days and emits at most one range; every run
\* reaches the end of the script.
C7_LoopTerminates ==
    /\ [][ pc = "loop" =>
             IF current > WindowEnd(idx)
             THEN pc' = "display" /\ stays' = stays
             ELSE /\ pc' = "loop"
                  /\ current' >= current + 91
                  /\ Len(stays') <= Len(stays) + 1 ]_vars
    /\ <>(pc = "done")

C7_Witness ==
    /\ pc = "display"
    /\ idx = 4
    /\ Len(stays) >= 10
    /\ current > WindowEnd(idx)

\* C8: an Optimized range lasts exactly 90 days unless it ends on the
\* window's last day; an Optimized range shorter than 90 days is the last
\* range of its schedule, the next entry being past the window end.
C8_GreedyMaximal ==
    \A sch \in Schedules :
        \A k \in 1..Len(sch.rows) :
            LET r == sch.rows[k]
            IN  IsOptimized(r) =>
                  /\ r.Duration = 90 \/ ExitOf(r) = sch.end
                  /\ r.Duration < 90 =>
                        (k = Len(sch.rows) /\ ExitOf(r) + 91 > sch.end)

C8_Witness ==
    \E i \in 1..Len(tabs) :
        LET rows == tabs[i].rows
        IN  /\ Len(rows) >= 3
            /\ IsOptimized(rows[Len(rows) - 1])
            /\ rows[Len(rows) - 1].Duration = 90
            /\ IsOptimized(rows[Len(rows)])
            /\ rows[Len(rows)].Duration < 90

\* The ranges of a schedule as pairs <<entry, exit>> of dates.
RECURSIVE Intervals(_)
Intervals(rows) ==
    IF rows = <<>> THEN <<>>
    ELSE << <<EntryOf(Head(rows)), ExitOf(Head(rows))>> >> \o Intervals(Tail(rows))

\* Days of the first n ranges of iv that fall in the block of days lo..hi.
RECURSIVE DaysInBlock(_, _, _, _)
DaysInBlock(iv, n, lo, hi) ==
    IF n = 0 THEN 0
    ELSE Max(0, Min(iv[n][2], hi) - Max(iv[n][1], lo) + 1)
           + DaysInBlock(iv, n - 1, lo, hi)

\* C9: a finished schedule respects the rolling rule: no block of 180
\* consecutive days holds more than 90 days of stay.
C9_RollingRule ==
    pc = "display" =>
        LET iv == Intervals(stays)
        IN  \A a \in (start - 179)..WindowEnd(idx) :
                DaysInBlock(iv, Len(stays), a, a + 179) <= 90

C9_Witness ==
    /\ pc = "display"
    /\ Len(stays) >= 2
    /\ IsManual(stays[1])
    /\ stays[1].Duration = 90
    /\ stays[2].Duration = 90
    /\ DaysInBlock(Intervals(stays), Len(stays), manual_entry + 1, manual_entry + 180) = 90

\* C10: the empty schedule is never produced: a window that is not
\* inapplicable shows at least one range, and no tab shows 'No travel
\* periods possible'.
C10_NeverEmpty ==
    /\ pc = "display" => stays # <<>>
    /\ \A i \in 1..Len(tabs) :
          /\ tabs[i].kind # "no_periods"
          /\ tabs[i].kind # "warning_expired" => Len(tabs[i].rows) >= 1

C10_Witness ==
    /\ pc = "done"
    /\ has_manual_trip = FALSE
    /\ tabs[1].kind = "table"
    /\ Len(tabs[1].rows) = 1

====
